---- MODULE Spec2Model ----
(***************************************************************************)
(* Model of the retry engine of fetch-extension (src/src/fetch.js, first   *)
(* iteration of the file, lines 1-244): duelFetch, the DuelFetch           *)
(* constructor, DuelFetch.fetch with its suspension points (the exchange,   *)
(* the await of #evaluate and the inter-attempt sleep), #evaluate, #stats  *)
(* and #augmentResponse.                                                   *)
(*                                                                         *)
(* JavaScript objects are records whose DOMAIN is the set of properties    *)
(* that have been assigned, so "run.retryable is undefined" is             *)
(* "retryable" \notin DOMAIN run.  Values that may be null carry a tag.    *)
(***************************************************************************)
EXTENDS Integers, Sequences, FiniteSets, TLC

VARIABLES
    pc,         \* where the call is: idle, fetching, caught, escaping,
                \* evaluated, sleeping, resolved, rejected, threw
    options,    \* the caller's options object (duelFetch deletes its extension)
    extension,  \* this.extension, the resolved policy
    request,    \* this.request, the Request of the attempt in flight
    response,   \* this.response, the last Response obtained
    runs,       \* the attempt log of fetch()
    signal,     \* the caller's AbortSignal: aborted flag and reason
    now,        \* Date.now(), in ms since the call began
    startTime,  \* startTime of the attempt in flight
    exchanges,  \* what the transport was handed, one entry per fetch(request)
    outcomes,   \* how the transport ended each exchange (not visible to the code)
    events,     \* the order in which the call's visible steps happened
    delivered,  \* the reports handed to extension.onComplete
    result,     \* the value the call settled with
    input,      \* the options as the caller wrote them (not visible to the code)
    triggered,  \* where the call was when the token was triggered (likewise)
    deadline,   \* the AbortSignal.timeout(...) of the attempt in flight
    current     \* the run variable of fetch(): the run of the attempt at hand

vars == <<pc, options, extension, request, response, runs, signal,
          now, startTime, exchanges, outcomes, events, delivered, result, input, triggered,
          deadline, current>>

-----------------------------------------------------------------------------
(* Bounds of the model *)

MaxLimit == 2       \* largest retry.limit a caller passes
MaxTicks == 1       \* longest an exchange takes to settle, in ms of the clock

-----------------------------------------------------------------------------
(* JavaScript values *)

Undefined == "undefined"
Null == [tag |-> "null"]
Empty == <<>>
Has(obj, prop) == prop \in DOMAIN obj
Get(obj, prop) == IF Has(obj, prop) THEN obj[prop] ELSE Undefined
Assign(obj, prop, value) == (prop :> value) @@ obj
Delete(obj, prop) == [p \in DOMAIN obj \ {prop} |-> obj[p]]
Obj(fields) == [tag |-> "object"] @@ fields

\* lodash isEmpty on the values a retry block takes here: null, or an object
\* without own properties
isEmpty(v) == v.tag = "null" \/ DOMAIN v = {"tag"}

\* value === undefined, for a value of any kind
isUndefined(value) == ToString(value) = ToString(Undefined)

\* value === null, for a value of any kind
isNull(value) == ToString(value) = ToString(Null)

\* as defaults, but the properties of the source replace those of the object
defaults_sourceWins(object, source) == source @@ object

\* lodash defaults(object, source): copies the source's properties that are
\* undefined in the object, whether they are absent or were assigned
\* undefined; Object(null) is a fresh object that nobody keeps
defaults(object, source) ==
    [p \in DOMAIN object \cup DOMAIN source |->
        IF Has(source, p) /\ (~Has(object, p) \/ isUndefined(object[p]))
        THEN source[p]
        ELSE object[p]]

-----------------------------------------------------------------------------
(* src/src/util.js *)

DELETE == "DELETE"
GET == "GET"
HEAD == "HEAD"
PATCH == "PATCH"
POST == "POST"
PUT == "PUT"

\* as countOf, but the noun is always plural
countOf_alwaysPlural(count, subject) ==
    ToString(count) \o " " \o subject \o "s"

countOf(count, subject) ==
    LET plural == IF count = 1 THEN "" ELSE "s"
    IN  ToString(count) \o " " \o subject \o plural

\* #src/httpCodes is not part of the sources; the specification defines a
\* server error as a status of 500 or more
isServerErrorCode(status) == status >= 500

-----------------------------------------------------------------------------
(* DuelFetch: constructor *)

defaultExtension ==
    [retry |-> Obj([limit |-> 1,
                    delay |-> "100 ms",
                    methods |-> {DELETE, GET, HEAD, PATCH, PUT}])]

\* an array is an object whose properties are its indices
Array(first, second) == ("0" :> first) @@ ("1" :> second)

\* the falsy values of JavaScript that the model can hold (it has no NaN)
Falsy == {ToString(Undefined), ToString(Null), ToString(FALSE), ToString(0),
          ToString("")}

\* whether obj[prop] is truthy: assigned, and not one of the falsy values
Truthy(obj, prop) ==
    /\ Has(obj, prop)
    /\ ToString(obj[prop]) \notin Falsy

TypeError(id) == [id |-> id, proto |-> "Error", name |-> "TypeError"]

\* what a function that threw has produced, in place of a value
Thrown(error) == [threw |-> error]

\* the extension parameter of the constructor: its default, {}, stands in
\* for undefined and for nothing else
extensionParameter(argument) ==
    IF isUndefined(argument) THEN Empty ELSE argument

\* lines 38-42: the defaults of the extension, then of each of its entries;
\* defaults(null, ...) fills a temporary object and leaves the null in place,
\* and Object.entries(null), for a null extension, throws a TypeError
mergeDefaults(ext) ==
    IF isNull(ext) THEN Thrown(TypeError(1))
    ELSE LET merged == defaults(ext, defaultExtension)
         IN  IF merged.retry.tag = "null"
             THEN merged
             ELSE [merged EXCEPT !.retry = defaults(@, defaultExtension.retry)]

\* the strings that ms() of space-time reads here, with their milliseconds
msText == ("0 ms" :> 0) @@ ("1 ms" :> 1) @@ ("100 ms" :> 100)

\* ms(time): the milliseconds of a string, a number as it is
ms(time) ==
    IF ToString(time) \in {ToString(text) : text \in DOMAIN msText}
    THEN msText[time]
    ELSE time

\* line 45: a truthy timeout is replaced by its milliseconds
timeoutInMs(ext) ==
    IF Truthy(ext, "timeout") THEN [ext EXCEPT !.timeout = ms(@)] ELSE ext

\* lines 44-49: the guard reads the signal property of the fetchArgs array
constructorThrows(fetchArgs, ext) ==
    Truthy(ext, "timeout") /\ Truthy(fetchArgs, "signal")

-----------------------------------------------------------------------------
(* DuelFetch: classification of one attempt *)

networkErrorCodes ==
    {"ECONNRESET", "EADDRINUSE", "ECONNREFUSED", "EPIPE",
     "ENOTFOUND", "ENETUNREACH", "EAI_AGAIN"}

\* error instanceof Error: the value is an object whose prototype chain has
\* Error.prototype, as every Error, TypeError and DOMException of the realm
instanceofError(value) == Get(value, "proto") = "Error"

\* lines 241-243
isAbortError(error) ==
    instanceofError(error) /\ Get(error, "name") = "AbortError"

\* error.cause || error: the cause when the error has a truthy one
causeOrError(error) ==
    IF Truthy(error, "cause") THEN error.cause ELSE error

\* lines 227-229
errorCode(error) == Get(causeOrError(error), "code")

\* this.fetchArgs[1]?.signal?.reason; heap is the state of the caller's token
signalReason(fetchArgs, heap) ==
    IF Has(fetchArgs["1"], "signal") THEN heap.reason ELSE Undefined

\* lines 177-189: an AbortError is the deadline's when a timeout is set,
\* else the caller's
evaluateAbort(this, heap, recorded, error) ==
    IF Truthy(this.extension, "timeout")
    THEN Assign(Assign(recorded, "retryable", TRUE),
                "error", Assign(error, "reason", "Timeout"))
    ELSE Assign(recorded, "error",
                Assign(error, "reason", signalReason(this.fetchArgs, heap)))

\* lines 190-204
evaluateError(recorded, error) ==
    Assign(recorded, "retryable", errorCode(error) \in networkErrorCodes)

\* as evaluateResponse, but without the test of the method
evaluateResponse_anyMethod(this, recorded) ==
    Assign(recorded, "retryable", isServerErrorCode(this.response.status))

\* lines 206-209
evaluateResponse(this, recorded) ==
    Assign(recorded, "retryable",
           /\ this.request.method \in this.extension.retry.methods
           /\ isServerErrorCode(this.response.status))

\* if (error): whether what #evaluate was handed is truthy. Empty stands for
\* no argument (undefined); an object is truthy, and a thrown string is
\* unless it is the empty string
isTruthy(error) ==
    /\ error # Empty
    /\ Get(error, "proto") = "String" => error.value # ""

\* as evaluate, but the test of an empty retry block comes after the
\* classification of an error
evaluate_emptyTestedLate(this, heap, run, error) ==
    LET recorded == IF isTruthy(error)
                    THEN Assign(run, "error", error)
                    ELSE Assign(run, "status", this.response.status)
    IN  IF isTruthy(error) THEN
            IF isAbortError(error)
            THEN evaluateAbort(this, heap, recorded, error)
            ELSE evaluateError(recorded, error)
        ELSE IF isEmpty(this.extension.retry) THEN recorded
        ELSE evaluateResponse(this, recorded)

\* #evaluate(run, error); error is Empty when the exchange gave a response.
\* The run holds the error object itself, so a reason assigned to the error
\* shows in run.error. A falsy error is taken for no error: the run gets
\* the status of this.response, the response of an earlier attempt.
evaluate(this, heap, run, error) ==
    LET recorded == IF isTruthy(error)
                    THEN Assign(run, "error", error)
                    ELSE Assign(run, "status", this.response.status)
    IN  IF isEmpty(this.extension.retry) THEN recorded
        ELSE IF isTruthy(error) THEN
            IF isAbortError(error)
            THEN evaluateAbort(this, heap, recorded, error)
            ELSE evaluateError(recorded, error)
        ELSE evaluateResponse(this, recorded)

\* whether a value is an array (has includes); the one value that is not, here,
\* is null, told apart by its printed form
isArray(value) == ToString(value) # ToString(Null)

\* whether #evaluate throws a TypeError, on the branch of no error: at line
\* 166, this.response.status, when no attempt has obtained a response yet,
\* and at line 207, retryConfig.methods.includes(...), when methods is not
\* an array
evaluateThrows(this, error) ==
    /\ ~isTruthy(error)
    /\ \/ this.response = Empty
       \/ /\ ~isEmpty(this.extension.retry)
          /\ ~isArray(this.extension.retry.methods)

\* the run as #evaluate leaves it when it throws: without a status when the
\* throw is that of line 166, with it when it is that of line 207
evaluateInterrupted(this, run) ==
    IF this.response = Empty THEN run
    ELSE Assign(run, "status", this.response.status)

\* as failed, but a run that was given any retryable value counts
failed_anyVerdict(run) == Has(run, "error") \/ Has(run, "retryable")

\* as failed, but a retryable run without an error does not count
failed_errorOnly(run) == Has(run, "error")

\* the getter defined on every run: Boolean(this.error || this.retryable)
failed(run) == Has(run, "error") \/ (Has(run, "retryable") /\ run.retryable)

-----------------------------------------------------------------------------
(* DuelFetch: the report *)

\* lines 231-239
errorSummary(error) ==
    LET subject == causeOrError(error)
    IN  IF isAbortError(subject)
        THEN Get(subject, "name") \o " (" \o Get(subject, "reason") \o ")"
        ELSE Get(subject, "name") \o " (" \o errorCode(subject) \o ")"

\* as sum, but the largest of the timings
RECURSIVE sum_largest(_)
sum_largest(timings) ==
    IF timings = <<>> THEN 0
    ELSE LET rest == sum_largest(Tail(timings))
         IN  IF Head(timings) > rest THEN Head(timings) ELSE rest

\* lodash sum
RECURSIVE sum(_)
sum(timings) ==
    IF timings = <<>> THEN 0 ELSE Head(timings) + sum(Tail(timings))

\* Math.max(...timings), of a log that has a run
RECURSIVE max(_)
max(timings) ==
    IF Len(timings) = 1 THEN Head(timings)
    ELSE LET rest == max(Tail(timings))
         IN  IF Head(timings) > rest THEN Head(timings) ELSE rest

\* as join, but the last string comes first
RECURSIVE join_reversed(_, _)
join_reversed(strings, separator) ==
    IF strings = <<>> THEN ""
    ELSE IF Len(strings) = 1 THEN Head(strings)
    ELSE join_reversed(Tail(strings), separator) \o separator \o Head(strings)

RECURSIVE join(_, _)
join(strings, separator) ==
    IF strings = <<>> THEN ""
    ELSE IF Len(strings) = 1 THEN Head(strings)
    ELSE Head(strings) \o separator \o join(Tail(strings), separator)

summaryOf(run) ==
    IF Has(run, "error") THEN errorSummary(run.error) ELSE ToString(run.status)

\* as stats, but the warning is composed whenever the log has several runs
stats_bothMessages(log) ==
    LET timings == [i \in 1..Len(log) |-> log[i].time]
        lastRun == log[Len(log)]
        base == [runs |-> log,
                 totalFetchTime |-> sum(timings),
                 maxFetchTime |-> max(timings),
                 lastRun |-> lastRun]
        failedAttempts == SelectSeq(log, failed)
        withFail ==
            IF failed(lastRun)
            THEN Assign(base, "failMessage",
                     (IF Has(lastRun, "error")
                      THEN "Failed with " \o errorSummary(lastRun.error)
                      ELSE "Failed with status " \o ToString(lastRun.status))
                     \o " after " \o countOf(Len(log), "attempt"))
            ELSE base
    IN  IF Len(log) > 1
        THEN Assign(withFail, "warnMessage",
                 "Required " \o countOf(Len(log), "attempt") \o " ("
                 \o join([i \in 1..Len(failedAttempts) |->
                             summaryOf(failedAttempts[i])], ", ")
                 \o ")")
        ELSE withFail

\* #stats(runs)
stats(log) ==
    LET timings == [i \in 1..Len(log) |-> log[i].time]
        lastRun == log[Len(log)]
        base == [runs |-> log,
                 totalFetchTime |-> sum(timings),
                 maxFetchTime |-> max(timings),
                 lastRun |-> lastRun]
        failedAttempts == SelectSeq(log, failed)
    IN  IF failed(lastRun)
        THEN Assign(base, "failMessage",
                 (IF Has(lastRun, "error")
                  THEN "Failed with " \o errorSummary(lastRun.error)
                  ELSE "Failed with status " \o ToString(lastRun.status))
                 \o " after " \o countOf(Len(log), "attempt"))
        ELSE IF Len(log) > 1
        THEN Assign(base, "warnMessage",
                 "Required " \o countOf(Len(log), "attempt") \o " ("
                 \o join([i \in 1..Len(failedAttempts) |->
                             summaryOf(failedAttempts[i])], ", ")
                 \o ")")
        ELSE base

\* #augmentResponse(runs): the extension property, with the body helper and
\* the report, defined on this.response
augmentResponse(resp, log) ==
    Assign(resp, "extension", [body |-> "function", stats |-> stats(log)])

-----------------------------------------------------------------------------
(* What callers pass and what the transport answers *)

Url == "http://localhost:8080/request"
UserReason == "User-specified"
Timeouts == {100}
\* a delay is a number or a string that ms() reads (README); the string form,
\* as in the default '100 ms', keeps the values of delay of one type
Delays == {"1 ms"}
MethodLists == {{POST}}
RequestMethods == {"Post"}
Statuses == {200, 404, 500}
ErrorCodes == {"ENOTFOUND", "ETIMEDOUT", "EACCES"}

\* every record with some of the given optional properties
Optional(prop, values) == {Empty} \cup {(prop :> v) : v \in values}

Merge(left, right) == {l @@ r : l \in left, r \in right}

\* the retry blocks callers write: null, {}, the methods alone, or a limit
\* with a delay as the tests do
RetryInputs ==
    {Null, Obj(Empty)}
    \cup {Obj([methods |-> m]) : m \in MethodLists}
    \cup {Obj([limit |-> l, delay |-> d]) : l \in 0..MaxLimit, d \in Delays}

\* a callback that takes the report and returns, and one that throws
Callback == [tag |-> "function", does |-> "returns"]
ThrowingCallback == [tag |-> "function", does |-> "throws"]

\* the extension blocks callers write; each carries its onComplete, as
\* those of the tests do, and the call without an extension block is the one
\* without a callback
ExtensionInputs ==
    Merge(Optional("timeout", Timeouts),
          Merge(Optional("retry", RetryInputs),
                {[onComplete |-> Callback]}))

OptionsInputs ==
    Merge(Optional("method", RequestMethods),
          Merge(Optional("signal", {"token"}),
                Optional("extension", ExtensionInputs)))

\* a retry block whose methods are not an array
MalformedRetryInputs == {Obj([methods |-> Null])}

\* methods that a Request refuses or defaults
OddMethods == {"trace", Undefined}

\* callbacks that are none or that throw
OddCallbacks == {Null, ThrowingCallback}

MalformedOptionsInputs ==
    Merge(Optional("method", RequestMethods),
          {[extension |-> e] :
               e \in Merge({[retry |-> r] : r \in MalformedRetryInputs},
                           Optional("onComplete", {Callback}))})
    \cup {[extension |-> Null]}
    \cup {[method |-> m] : m \in OddMethods}
    \cup {[extension |-> [onComplete |-> c]] : c \in OddCallbacks}

CauseCodes == {"ENOTFOUND"}

\* the errors a transport throws: one that carries the code itself and one
\* that carries it on its cause
NetworkErrors(id) ==
    {[id |-> id, proto |-> "Error", name |-> "FetchError", code |-> c] :
         c \in ErrorCodes}
    \cup {[id |-> id, proto |-> "Error", name |-> "TypeError",
           cause |-> [proto |-> "Error", name |-> "Error", code |-> c]] :
              c \in CauseCodes}

\* the error of a transport that reports every cancellation as an AbortError
\* (the tests expect 'AbortError (Timeout <100 ms>)', test.js line 129)
AbortError(id) == [id |-> id, proto |-> "Error", name |-> "AbortError"]

\* the DOMException with which the fetch of the runtime rejects when the
\* AbortSignal.timeout of the request fires; its code, the number 23, is
\* held by its decimal form, which the report prints
TimeoutError(id) ==
    [id |-> id, proto |-> "Error", name |-> "TimeoutError", code |-> "23"]

\* a string that was thrown: a primitive, with no property of its own
ThrownString(id, value) == [id |-> id, proto |-> "String", value |-> value]

\* what the exchange rejects with when the deadline of its request fires
DeadlineErrors(id) == {TimeoutError(id), AbortError(id)}

\* what the exchange rejects with when the caller's token is triggered with
\* a reason: the reason itself or a TypeError (the fetch of the runtime,
\* according to its version), or an AbortError (test.js line 165)
CancelErrors(id, reason) ==
    {ThrownString(id, reason), TypeError(id), AbortError(id)}

-----------------------------------------------------------------------------
(* DuelFetch.fetch *)

This == [extension |-> extension,
         fetchArgs |-> Array(Url, options),
         request |-> request,
         response |-> response]

\* as runLimit, but one attempt too many
runLimit_offByOne(ext) ==
    (IF ext.retry.tag = "null" THEN 0 ELSE Get(ext.retry, "limit")) + 2

\* (retryConfig?.limit || 0) + 1
runLimit(ext) ==
    (IF ext.retry.tag = "null" THEN 0 ELSE Get(ext.retry, "limit")) + 1

\* lines 76-81: the caller's options, the signal replaced by a deadline of
\* its own when a timeout is set
fetchOpts(opts, ext) ==
    IF Truthy(ext, "timeout") THEN Assign(opts, "signal", "deadline") ELSE opts

\* the methods a Request writes in upper case, letter by letter
StandardMethods ==
    {<<"D", "E", "L", "E", "T", "E">>, <<"G", "E", "T">>,
     <<"H", "E", "A", "D">>, <<"O", "P", "T", "I", "O", "N", "S">>,
     <<"P", "O", "S", "T">>, <<"P", "U", "T">>}

\* the lower-case form of the letters of the methods a Request knows
lowerCase ==
    ("A" :> "a") @@ ("C" :> "c") @@ ("D" :> "d") @@ ("E" :> "e")
    @@ ("G" :> "g") @@ ("H" :> "h") @@ ("I" :> "i") @@ ("K" :> "k")
    @@ ("L" :> "l") @@ ("N" :> "n") @@ ("O" :> "o") @@ ("P" :> "p")
    @@ ("R" :> "r") @@ ("S" :> "s") @@ ("T" :> "t") @@ ("U" :> "u")

\* the word of a sequence of letters
RECURSIVE word(_)
word(letters) ==
    IF letters = <<>> THEN "" ELSE Head(letters) \o word(Tail(letters))

\* every spelling of a word that differs from it in the case of letters only
RECURSIVE spellings(_)
spellings(letters) ==
    IF letters = <<>> THEN {""}
    ELSE {first \o rest : first \in {Head(letters), lowerCase[Head(letters)]},
                          rest \in spellings(Tail(letters))}

\* the spellings of each standard method
MethodSpellings == [m \in StandardMethods |-> spellings(m)]

\* the methods a Request refuses, letter by letter
ForbiddenMethods ==
    {<<"C", "O", "N", "N", "E", "C", "T">>, <<"T", "R", "A", "C", "E">>,
     <<"T", "R", "A", "C", "K">>}

\* the spellings of each forbidden method
ForbiddenSpellings == UNION {spellings(m) : m \in ForbiddenMethods}

\* the characters of a token of HTTP: letters, digits and the signs; the
\* grave accent is one more, which no string written here can hold
TokenCharacters ==
    {"a", "b", "c", "d", "e", "f", "g", "h", "i", "j", "k", "l", "m",
     "n", "o", "p", "q", "r", "s", "t", "u", "v", "w", "x", "y", "z",
     "A", "B", "C", "D", "E", "F", "G", "H", "I", "J", "K", "L", "M",
     "N", "O", "P", "Q", "R", "S", "T", "U", "V", "W", "X", "Y", "Z",
     "0", "1", "2", "3", "4", "5", "6", "7", "8", "9",
     "!", "#", "$", "%", "&", "'", "*", "+", "-", ".", "^", "_", "|",
     "~"}

\* whether a method is a token of HTTP: one character at least, and every
\* character one of a token
isToken(method) ==
    /\ Len(method) > 0
    /\ \A i \in 1..Len(method) : SubSeq(method, i, i) \in TokenCharacters

\* the method of a Request: one that is forbidden, in whatever case, or that
\* is not a token throws a TypeError; a standard method, in whatever case the
\* caller spelt it, is written in upper case; any other is kept as written
normalizeMethod(method) ==
    IF ~isToken(method) \/ method \in ForbiddenSpellings
    THEN Thrown(TypeError(1))
    ELSE IF \E m \in StandardMethods : method \in MethodSpellings[m]
         THEN word(CHOOSE m \in StandardMethods : method \in MethodSpellings[m])
         ELSE method

\* the method the Request is built with: an undefined method is none
methodGiven(opts) == Has(opts, "method") /\ ~isUndefined(opts.method)

\* line 83: whether new Request(...) throws, as it does for its method
newRequestThrows(url, opts) ==
    /\ methodGiven(opts)
    /\ ToString(normalizeMethod(opts.method)) = ToString(Thrown(TypeError(1)))

\* line 83: new Request(fetchURL, fetchOpts), or what it threw
newRequest(url, opts) ==
    IF newRequestThrows(url, opts) THEN normalizeMethod(opts.method)
    ELSE [url |-> url,
          method |-> IF methodGiven(opts) THEN normalizeMethod(opts.method)
                     ELSE GET,
          signal |-> Get(opts, "signal")]

\* as deadlineOf, but the deadline is the one created when the call began
deadlineOf_shared(ext, attempt, clock) ==
    IF Truthy(ext, "timeout")
    THEN [attempt |-> 1, created |-> 0, delay |-> ext.timeout]
    ELSE Empty

\* line 79: AbortSignal.timeout(extension.timeout), created for the attempt
\* that builds its Request with it
deadlineOf(ext, attempt, clock) ==
    IF Truthy(ext, "timeout")
    THEN [attempt |-> attempt, created |-> clock, delay |-> ext.timeout]
    ELSE Empty

\* the DuelFetch at work, with what the transport has seen of it
Instance ==
    [attempt |-> Len(runs) + 1, clock |-> now, request |-> request,
     response |-> response, exchanges |-> exchanges, outcomes |-> outcomes,
     events |-> events]

\* a DuelFetch that was just constructed
Fresh ==
    [attempt |-> 1, clock |-> 0, request |-> Empty, response |-> Empty,
     exchanges |-> <<>>, outcomes |-> <<>>, events |-> <<>>]

\* as StartAttempt, but a second exchange is issued beside the first
StartAttempt_twoInFlight(opts, ext, clock, before) ==
    LET args == fetchOpts(opts, ext)
    IN  /\ startTime' = clock
        /\ deadline' = deadlineOf(ext, before.attempt, clock)
        /\ current' = Empty
        /\ request' = newRequest(Url, args)
        /\ exchanges' = Append(Append(before.exchanges, Array(Url, args)),
                               Array(Url, args))
        /\ outcomes' = before.outcomes
        /\ events' = Append(before.events, "fetch")
        /\ pc' = "fetching"

\* lines 71-84, up to the await of the exchange; when new Request throws,
\* lines 88-89, up to the await of #evaluate(run, error): no exchange is
\* issued and the run gets the TypeError
StartAttempt(opts, ext, clock, before) ==
    LET args == fetchOpts(opts, ext)
        this == [extension |-> ext, fetchArgs |-> Array(Url, opts),
                 request |-> before.request, response |-> before.response]
    IN  /\ startTime' = clock
        /\ deadline' = deadlineOf(ext, before.attempt, clock)
        /\ IF newRequestThrows(Url, args)
           THEN /\ current' = evaluate(this, signal, Empty,
                                       newRequest(Url, args).threw)
                /\ request' = before.request
                /\ exchanges' = before.exchanges
                /\ outcomes' = Append(before.outcomes, "request")
                /\ events' = before.events
                /\ pc' = "evaluated"
           ELSE /\ current' = Empty
                /\ request' = newRequest(Url, args)
                /\ exchanges' = Append(before.exchanges, Array(Url, args))
                /\ outcomes' = before.outcomes
                /\ events' = Append(before.events, "fetch")
                /\ pc' = "fetching"

\* the call ends before any attempt, with what the constructor threw
ConstructorThrew(error, before) ==
    /\ pc' = "threw"
    /\ result' = [kind |-> "rejected", value |-> error]
    /\ events' = Append(before.events, "throw")
    /\ request' = before.request
    /\ exchanges' = before.exchanges
    /\ outcomes' = before.outcomes
    /\ startTime' = before.clock
    /\ deadline' = Empty
    /\ current' = Empty

\* duelFetch(url, options): lines 7-18, the constructor and fetch() up to
\* its first await. A truthy extension is taken off the options; the
\* constructor is handed whatever options.extension was.
duelFetch(opts, before) ==
    LET rest == IF Truthy(opts, "extension") THEN Delete(opts, "extension")
                ELSE opts
        merged == mergeDefaults(extensionParameter(Get(opts, "extension")))
    IN  /\ options' = rest
        /\ IF Has(merged, "threw")
           THEN /\ extension' = Empty
                /\ ConstructorThrew(merged.threw, before)
           ELSE LET resolved == timeoutInMs(merged)
                IN  /\ extension' = resolved
                    /\ IF constructorThrows(Array(Url, rest), merged)
                       THEN ConstructorThrew(TypeError(1), before)
                       ELSE /\ StartAttempt(rest, resolved, before.clock, before)
                            /\ result' = Empty

Call(opts) ==
    /\ pc = "idle"
    /\ duelFetch(opts, Instance)
    /\ input' = opts
    /\ UNCHANGED <<response, runs, signal, now, delivered, triggered>>

\* the run variable once the loop has stopped
finalRun(log) == log[Len(log)]

\* line 106: this.extension?.onComplete?.(...): no call when onComplete is
\* undefined or null
onCompleteCalled(ext) ==
    /\ Has(ext, "onComplete")
    /\ ~isUndefined(ext.onComplete)
    /\ ~isNull(ext.onComplete)

\* a callback that throws instead of returning
onCompleteThrows(ext) == ext.onComplete.does = "throws"

\* what such a callback throws
CallbackError == [id |-> 0, proto |-> "Error", name |-> "Error"]

\* lines 104-113 once the loop has stopped: the report to onComplete, then
\* the error of the last run thrown or the augmented response returned; what
\* onComplete throws leaves fetch() at line 106
Finish(log, resp, seen) ==
    LET run == finalRun(log)
        called == onCompleteCalled(extension)
        told == IF called THEN Append(seen, "onComplete") ELSE seen
    IN  /\ delivered' = IF called THEN Append(delivered, stats(log))
                        ELSE delivered
        /\ IF called /\ onCompleteThrows(extension)
           THEN /\ result' = [kind |-> "rejected", value |-> CallbackError]
                /\ response' = resp
                /\ events' = Append(told, "reject")
                /\ pc' = "rejected"
           ELSE IF Has(run, "error")
           THEN /\ result' = [kind |-> "rejected", value |-> run.error]
                /\ response' = resp
                /\ events' = Append(told, "reject")
                /\ pc' = "rejected"
           ELSE /\ result' = [kind |-> "resolved",
                              value |-> augmentResponse(resp, log)]
                /\ response' = augmentResponse(resp, log)
                /\ events' = Append(told, "resolve")
                /\ pc' = "resolved"

\* as continues, but the loop goes on to the limit whatever the run was
continues_untilLimit(run, log, ext) == Len(log) < runLimit(ext)

\* line 104: while (run.retryable && runs.length < runLimit)
continues(run, log, ext) ==
    /\ Has(run, "retryable")
    /\ run.retryable
    /\ Len(log) < runLimit(ext)

\* lines 84-89, up to the suspension of `await this.#evaluate(...)`: the
\* exchange settles with a response or an error after some ms of the
\* clock, this.response is assigned and #evaluate classifies the run. When
\* #evaluate(run) throws inside the try block, the rejection waits for the
\* catch clause; when #evaluate(run, error) throws inside the catch clause,
\* the rejection leaves fetch().
Settle(kind, resp, error, ticks) ==
    /\ pc = "fetching"
    /\ outcomes' = Append(outcomes, kind)
    /\ now' = now + ticks
    /\ LET this == [This EXCEPT !.response = IF error = Empty THEN resp ELSE @]
       IN  /\ response' = this.response
           /\ IF evaluateThrows(this, error)
              THEN /\ current' = evaluateInterrupted(this, current)
                   /\ pc' = IF error = Empty THEN "caught" ELSE "escaping"
              ELSE /\ current' = evaluate(this, signal, current, error)
                   /\ pc' = "evaluated"
    /\ UNCHANGED <<options, extension, request, runs, signal, startTime,
                   exchanges, events, delivered, result, input, triggered,
                   deadline>>

\* lines 88-89, up to the suspension of `await this.#evaluate(run, error)`:
\* what #evaluate(run) threw inside the try block is caught and the run is
\* evaluated again with that error
Catch ==
    /\ pc = "caught"
    /\ current' = evaluate(This, signal, current, TypeError(Len(runs) + 1))
    /\ pc' = "evaluated"
    /\ UNCHANGED <<options, extension, request, response, runs, signal, now,
                   startTime, exchanges, outcomes, events, delivered, result,
                   input, triggered, deadline>>

\* line 89, once the await is over: what #evaluate(run, error) threw is the
\* rejection of fetch(); no run is pushed and onComplete is not called
Escape ==
    /\ pc = "escaping"
    /\ result' = [kind |-> "rejected", value |-> TypeError(Len(runs) + 1)]
    /\ events' = Append(events, "reject")
    /\ pc' = "rejected"
    /\ UNCHANGED <<options, extension, request, response, runs, signal, now,
                   startTime, exchanges, outcomes, delivered, input,
                   triggered, deadline, current>>

\* lines 92-113, once the await of #evaluate is over: the run gets its time
\* and is pushed, and the loop either sleeps or stops
Push ==
    /\ pc = "evaluated"
    /\ LET run == Assign(current, "time", now - startTime)
           log == Append(runs, run)
           seen == Append(events, "push")
       IN  /\ current' = run
           /\ runs' = log
           /\ IF continues(run, log, extension)
              THEN /\ pc' = "sleeping"
                   /\ events' = Append(seen, "sleep")
                   /\ UNCHANGED <<response, delivered, result>>
              ELSE Finish(log, response, seen)
    /\ UNCHANGED <<options, extension, request, signal, now, startTime,
                   exchanges, outcomes, input, triggered, deadline>>

\* how long an exchange takes: it settles at once or after MaxTicks
Durations == {0, MaxTicks}

\* how long the exchange of a request takes to settle of itself: at once or
\* late, and late for a request with a deadline is MaxTicks past the
\* deadline. The transport and the timer of the deadline race, line 84 takes
\* whichever is delivered first and line 95 reads the clock afterwards, so
\* that an answer may be the one delivered when the deadline is overdue
DurationsOf(req, timer) ==
    IF req.signal = "deadline"
    THEN {0, timer.delay + MaxTicks}
    ELSE Durations

\* the transport answers the request in flight
Respond ==
    /\ pc = "fetching"
    /\ ~(request.signal = "token" /\ signal.aborted)
    /\ \E status \in Statuses,
          ticks \in DurationsOf(request, deadline) :
           Settle("response",
                  [id |-> Len(runs) + 1, status |-> status,
                   url |-> request.url, body |-> "Text"],
                  Empty, ticks)

\* the transport fails below HTTP
Fail ==
    /\ pc = "fetching"
    /\ ~(request.signal = "token" /\ signal.aborted)
    /\ \E error \in NetworkErrors(Len(runs) + 1),
          ticks \in DurationsOf(request, deadline) :
           Settle("network", Empty, error, ticks)

\* the deadline of the attempt (AbortSignal.timeout) cancels the exchange
\* when its delay has passed since it was created, at once when it has
\* passed already
Deadline ==
    /\ pc = "fetching"
    /\ request.signal = "deadline"
    /\ LET fires == deadline.created + deadline.delay
           due == IF fires > now THEN fires - now ELSE 0
       IN  \E error \in DeadlineErrors(deadline.attempt) :
               Settle("deadline", Empty, error, due)

\* the caller's token, triggered, cancels the exchange it is attached to
Cancelled ==
    \E ticks \in Durations :
        /\ pc = "fetching"
        /\ request.signal = "token"
        /\ signal.aborted
        /\ \E error \in CancelErrors(Len(runs) + 1, signal.reason) :
               Settle("token", Empty, error, ticks)

\* as Wake, but the timer is dropped once the token has been triggered
Wake_unlessTriggered ==
    /\ pc = "sleeping"
    /\ ~signal.aborted
    /\ now' = now + ms(extension.retry.delay)
    /\ StartAttempt(options, extension, now + ms(extension.retry.delay),
                    Instance)
    /\ UNCHANGED <<options, extension, response, runs, signal, delivered,
                   result, input, triggered>>

\* as Wake, but the delay is taken a second time before the attempt
Wake_sleepsTwice ==
    /\ pc = "sleeping"
    /\ now' = now + 2 * ms(extension.retry.delay)
    /\ StartAttempt(options, extension, now + 2 * ms(extension.retry.delay),
                    [Instance EXCEPT !.events = Append(@, "sleep")])
    /\ UNCHANGED <<options, extension, response, runs, signal, delivered,
                   result, input, triggered>>

\* lines 67-84: the timer of sleep(retryConfig.delay) fires when the delay
\* has passed (util.js line 7), and the next attempt starts
Wake ==
    /\ pc = "sleeping"
    /\ now' = now + ms(extension.retry.delay)
    /\ StartAttempt(options, extension, now + ms(extension.retry.delay),
                    Instance)
    /\ UNCHANGED <<options, extension, response, runs, signal, delivered,
                   result, input, triggered>>

\* the call is suspended and the caller holds a token not yet triggered
CanAbort ==
    /\ pc \in {"fetching", "caught", "evaluated", "sleeping"}
    /\ Has(options, "signal")
    /\ ~signal.aborted

\* the caller triggers the token, controller.abort(reason)
AbortWith(reason) ==
    /\ signal' = [aborted |-> TRUE, reason |-> reason]
    /\ triggered' = [pc |-> pc, attempt |-> Len(exchanges), now |-> now]
    /\ UNCHANGED <<pc, options, extension, request, response, runs, now,
                   startTime, exchanges, outcomes, events, delivered, result,
                   input, deadline, current>>

\* controller.abort('User-specified'), as the tests do
Abort ==
    /\ CanAbort
    /\ AbortWith(UserReason)

\* controller.abort(''): a reason that is falsy
AbortEmpty ==
    /\ CanAbort
    /\ AbortWith("")

Init ==
    /\ pc = "idle"
    /\ options = Empty
    /\ extension = Empty
    /\ request = Empty
    /\ response = Empty
    /\ runs = <<>>
    /\ signal = [aborted |-> FALSE, reason |-> Undefined]
    /\ now = 0
    /\ startTime = 0
    /\ exchanges = <<>>
    /\ outcomes = <<>>
    /\ events = <<>>
    /\ delivered = <<>>
    /\ result = Empty
    /\ input = Empty
    /\ triggered = Empty
    /\ deadline = Empty
    /\ current = Empty

Next ==
    \/ \E opts \in OptionsInputs : Call(opts)
    \/ Respond
    \/ Fail
    \/ Deadline
    \/ Cancelled
    \/ Push
    \/ Wake
    \/ Abort

Spec == Init /\ [][Next]_vars

\* the caller, once a call has settled, hands the options object of that call
\* to duelFetch again: lines 7-18 read the object as the earlier call left
\* it, a new DuelFetch starts with an empty log, the token is the caller's
\* and the clock is read from the start of the call
Recall ==
    /\ pc \in {"resolved", "rejected"}
    /\ duelFetch(options, Fresh)
    /\ response' = Empty
    /\ runs' = <<>>
    /\ delivered' = <<>>
    /\ triggered' = Empty
    /\ now' = 0
    /\ UNCHANGED <<signal, input>>

\* the step that ends the exchange in flight, whichever of Respond, Fail,
\* Deadline and Cancelled it is; one of them is possible in every state
\* that awaits an exchange
ExchangeEnds ==
    /\ pc = "fetching"
    /\ pc' \in {"caught", "evaluated", "escaping"}

\* the step that resumes fetch() after an await of #evaluate: the promise
\* of #evaluate is settled by then, the continuation is a queued microtask
Resumes ==
    /\ pc \in {"caught", "evaluated", "escaping"}
    /\ pc' \in {"evaluated", "sleeping", "resolved", "rejected"}

\* the calls whose exchanges each end (the transport answers, fails or is
\* cancelled), whose microtasks run and whose sleeps each end (the timer of
\* sleep fires)
SpecFair ==
    /\ Init /\ [][Next]_vars
    /\ WF_pc(ExchangeEnds) /\ WF_pc(Resumes) /\ WF_vars(Wake)

NextMalformed ==
    \/ \E opts \in MalformedOptionsInputs : Call(opts)
    \/ Respond
    \/ Fail
    \/ Catch
    \/ Push
    \/ Wake

\* the calls of a caller whose options have a field of the wrong type or of
\* no use: a retry block whose methods are not an array, a null extension, a
\* method that no Request takes, a callback that throws
SpecMalformed == Init /\ [][NextMalformed]_vars

NextReuse ==
    \/ Next
    \/ Recall

\* the calls of a caller who keeps one options object for all of them
SpecReuse == Init /\ [][NextReuse]_vars

NextEmptyReason ==
    \/ Next
    \/ AbortEmpty
    \/ Escape

\* the calls of a caller who may trigger the token with a falsy reason
SpecEmptyReason == Init /\ [][NextEmptyReason]_vars

-----------------------------------------------------------------------------
(* Vocabulary of the properties *)

Started == pc # "idle"
Done == pc \in {"resolved", "rejected"}
RetryEnabled ==
    Started /\ Has(extension, "retry") /\ ~isEmpty(extension.retry)
Retryable(run) == Has(run, "retryable") /\ run.retryable
LastRun == runs[Len(runs)]
CodeOf(error) ==
    Get(IF Has(error, "cause") /\ ~isNull(error.cause)
           /\ ~isUndefined(error.cause)
        THEN error.cause ELSE error, "code")
Limit == IF RetryEnabled THEN extension.retry.limit ELSE -1
RunCode(run) == IF Has(run, "error") THEN CodeOf(run.error) ELSE Undefined
RunReason(run) ==
    IF Has(run, "error") THEN Get(run.error, "reason") ELSE Undefined
RunStatus(run) == IF Has(run, "status") THEN run.status ELSE 0
Count(seq, x) == Cardinality({i \in DOMAIN seq : seq[i] = x})
AllOutcomes(kind) == \A i \in DOMAIN outcomes : outcomes[i] = kind
CallerRetry ==
    IF Has(input, "extension") /\ Has(input.extension, "retry")
    THEN input.extension.retry ELSE Null

-----------------------------------------------------------------------------
(* Properties *)

\* C1: with retry.limit = L the call performs at most L + 1 attempts (records
\* and exchanges); it stops short of L + 1 only at a run that is not
\* retryable, and when every attempt fails with a transient code it rejects.
C1_AttemptsWithinLimit ==
    (Started /\ extension.retry.tag = "object") =>
        LET L == extension.retry.limit
        IN  /\ Len(runs) <= L + 1
            /\ Len(exchanges) <= L + 1
            /\ (Done /\ \A i \in DOMAIN runs : Retryable(runs[i]))
                   => Len(runs) = L + 1
            /\ (Done /\ AllOutcomes("network")
                     /\ \A i \in DOMAIN runs : Retryable(runs[i]))
                   => pc = "rejected" /\ result.value = LastRun.error

C1_Witness ==
    /\ pc = "rejected"
    /\ Limit = MaxLimit
    /\ Len(runs) = MaxLimit + 1
    /\ \A i \in DOMAIN runs : RunCode(runs[i]) = "ENOTFOUND"
    /\ CodeOf(result.value) = "ENOTFOUND"

\* C2: with a timeout and retry enabled, every attempt the deadline cancels
\* is recorded retryable with reason "Timeout"; when every attempt is
\* cancelled by its deadline the report has L + 1 records and the call
\* rejects with the last attempt's error.
C2_TimeoutIsRetried ==
    (RetryEnabled /\ Truthy(extension, "timeout")) =>
        /\ \A i \in DOMAIN runs :
               outcomes[i] = "deadline" =>
                   /\ Retryable(runs[i])
                   /\ runs[i].error.reason = "Timeout"
        /\ (Done /\ AllOutcomes("deadline")) =>
               /\ Len(runs) = extension.retry.limit + 1
               /\ pc = "rejected"
               /\ result.value = LastRun.error
               /\ result.value.id = Len(runs)

\* C3: a cancellation by the caller's token is terminal whether or not a
\* timeout is set: its run is not retryable and is the last one, the call
\* rejects, the reason reported is the caller's; a token triggered during the
\* first attempt leaves one record and a failMessage "... after 1 attempt".
C3_CallerCancellationIsTerminal ==
    /\ \A i \in DOMAIN runs :
           outcomes[i] = "token" =>
               /\ ~Retryable(runs[i])
               /\ i = Len(runs)
               /\ pc = "rejected"
               /\ Get(runs[i].error, "reason") = UserReason
    /\ (Done /\ triggered # Empty /\ triggered.pc = "fetching"
             /\ triggered.attempt = 1) =>
           /\ Len(runs) = 1
           /\ pc = "rejected"
           /\ stats(runs).failMessage
                  = "Failed with AbortError (" \o UserReason \o ") after 1 attempt"

\* C4: a call with both a timeout and a caller's signal fails with a
\* configuration error before any attempt: no exchange, no record, no
\* onComplete.
C4_TimeoutExcludesSignal ==
    (Started /\ Has(input, "signal") /\ Has(input, "extension")
             /\ Truthy(input.extension, "timeout")) =>
        /\ pc = "threw"
        /\ exchanges = <<>>
        /\ runs = <<>>
        /\ delivered = <<>>

\* C5: a call that has settled rejects iff the final run of its log carries
\* an error, with that very error (the one of the last attempt, as recorded);
\* otherwise it resolves with a response.
C5_RejectsWithFinalError ==
    /\ pc = "rejected" =>
           /\ result.kind = "rejected"
           /\ runs # <<>>
           /\ Has(LastRun, "error")
           /\ result.value = LastRun.error
           /\ result.value.id = Len(runs)
    /\ pc = "resolved" =>
           /\ result.kind = "resolved"
           /\ ~Has(LastRun, "error")
           /\ Has(result.value, "status")

\* C6: with onComplete configured it is called exactly once, with a report
\* of all the runs, after the last run was pushed and before the call
\* resolves or rejects, whichever of the two it does; never while the call is
\* still running.
C6_OnCompleteOnceBeforeSettling ==
    (Started /\ Len(exchanges) >= 1 /\ Has(extension, "onComplete")) =>
        IF Done
        THEN /\ Len(delivered) = 1
             /\ delivered[1].runs = runs
             /\ Count(events, "onComplete") = 1
             /\ LET n == Len(events)
                IN  /\ events[n - 2] = "push"
                    /\ events[n - 1] = "onComplete"
                    /\ events[n] \in {"resolve", "reject"}
        ELSE /\ delivered = <<>>
             /\ Count(events, "onComplete") = 0

\* C7: a call whose final attempt obtained a response resolves with that
\* response whatever its status; when the final run is a retryable server
\* error the attached report has lastRun.failed and a failMessage.
C7_ResponsesNeverReject ==
    (Done /\ outcomes[Len(outcomes)] = "response") =>
        /\ pc = "resolved"
        /\ result.kind = "resolved"
        /\ result.value.id = Len(runs)
        /\ result.value.status = LastRun.status
        /\ Retryable(LastRun) =>
               /\ failed(result.value.extension.stats.lastRun)
               /\ Has(result.value.extension.stats, "failMessage")

C7_Witness ==
    /\ pc = "resolved"
    /\ Len(runs) = Limit + 1
    /\ Len(runs) >= 2
    /\ \A i \in DOMAIN runs : Retryable(runs[i]) /\ RunStatus(runs[i]) = 500
    /\ result.value.status = 500
    /\ Has(result.value.extension.stats, "failMessage")

\* C8: with retry enabled a run that obtained a response is retryable iff its
\* status is 500 or more and the request's method is one of
\* retry.methods; any other response is a success and ends the loop.
C8_ResponseRetryableIff ==
    RetryEnabled =>
        \A i \in DOMAIN runs :
            outcomes[i] = "response" =>
                /\ Has(runs[i], "retryable")
                /\ runs[i].retryable <=>
                       (/\ runs[i].status >= 500
                        /\ request.method \in extension.retry.methods)
                /\ ~runs[i].retryable =>
                       /\ i = Len(runs)
                       /\ pc = "resolved"
                       /\ ~Has(result.value.extension.stats, "failMessage")

C8_Witness ==
    /\ pc = "resolved"
    /\ request.method = POST
    /\ Limit >= 1
    /\ extension.retry.methods = defaultExtension.retry.methods
    /\ Len(runs) = 1
    /\ RunStatus(runs[1]) = 500
    /\ ~Retryable(runs[1])

\* C9: with retry enabled a run that ended in a thrown error other than a
\* cancellation is retryable iff the error's code (of its cause when it has
\* one) is one of the eight transient codes, ETIMEDOUT among them.
TransientCodes ==
    {"ECONNRESET", "EADDRINUSE", "ECONNREFUSED", "EPIPE", "ENOTFOUND",
     "ENETUNREACH", "EAI_AGAIN", "ETIMEDOUT"}

C9_TransientCodesRetried ==
    RetryEnabled =>
        \A i \in DOMAIN runs :
            outcomes[i] = "network" =>
                (Retryable(runs[i]) <=> CodeOf(runs[i].error) \in TransientCodes)

\* C10: when the retry policy of the call is empty, every outcome is
\* terminal whatever its kind: no run is given a retryable value and the call
\* performs exactly one attempt.
C10_EmptyRetryIsTerminal ==
    (Started /\ isEmpty(extension.retry)) =>
        /\ \A i \in DOMAIN runs :
               ~Retryable(runs[i]) /\ ~Has(runs[i], "retryable")
        /\ Len(exchanges) = 1
        /\ Len(runs) <= 1
        /\ Done <=> Len(runs) = 1

C10_Witness ==
    /\ pc = "rejected"
    /\ isEmpty(extension.retry)
    /\ outcomes = <<"network">>
    /\ Len(runs) = 1
    /\ RunCode(runs[1]) = "ENOTFOUND"
    /\ ~Has(runs[1], "retryable")

\* the reports the call has produced: those handed to onComplete and the one
\* attached to the response it resolved with
Reports ==
    {delivered[i] : i \in DOMAIN delivered}
    \cup (IF pc = "resolved" THEN {result.value.extension.stats} ELSE {})
Noun(n) == IF n = 1 THEN "attempt" ELSE "attempts"

\* C11: a report never carries both messages: failMessage iff its last run is
\* failed (error or retryable), warnMessage iff the last run is not failed and
\* the log has several runs, neither iff the single run is not failed.
C11_OneMessageAtMost ==
    \A report \in Reports :
        LET last == report.runs[Len(report.runs)]
            bad == Has(last, "error") \/ Retryable(last)
        IN  /\ ~(Has(report, "failMessage") /\ Has(report, "warnMessage"))
            /\ Has(report, "failMessage") <=> bad
            /\ Has(report, "warnMessage") <=> (~bad /\ Len(report.runs) > 1)
            /\ (~Has(report, "failMessage") /\ ~Has(report, "warnMessage"))
                   <=> (~bad /\ Len(report.runs) = 1)

C11_Witness ==
    /\ pc = "resolved"
    /\ Len(runs) >= 2
    /\ RunStatus(LastRun) = 200
    /\ Has(result.value.extension.stats, "warnMessage")
    /\ ~Has(result.value.extension.stats, "failMessage")

\* C12: when the last run is failed, failMessage is "Failed with <X> after
\* <N> <noun>": N the number of runs, the noun singular for one run only, X
\* the summary of the last error or "status <code>"; a GET answered 500
\* twice under limit 1 and the default methods gives "Failed with status 500 after 2 attempts".
C12_FailMessageText ==
    /\ \A report \in Reports :
           LET n == Len(report.runs)
               last == report.runs[n]
           IN  (Has(last, "error") \/ Retryable(last)) =>
                   /\ Has(report, "failMessage")
                   /\ report.failMessage =
                          "Failed with "
                          \o (IF Has(last, "error")
                              THEN errorSummary(last.error)
                              ELSE "status " \o ToString(last.status))
                          \o " after " \o ToString(n) \o " " \o Noun(n)
    /\ (pc = "resolved" /\ Limit = 1 /\ request.method = GET
            /\ GET \in extension.retry.methods
            /\ \A i \in DOMAIN runs : RunStatus(runs[i]) = 500) =>
           /\ Len(runs) = 2
           /\ result.value.extension.stats.failMessage
                  = "Failed with status 500 after 2 attempts"

C12_Witness ==
    /\ pc = "rejected"
    /\ Len(runs) = 1
    /\ Len(delivered) = 1
    /\ Has(delivered[1], "failMessage")
    /\ delivered[1].failMessage = "Failed with FetchError (EACCES) after 1 attempt"

\* C13: when the last run is not failed and the log has N > 1 runs,
\* warnMessage is "Required N attempts (<list>)", the list being the
\* summaries of the N - 1 runs before the last, in order, joined by ", ".
C13_WarnMessageText ==
    \A report \in Reports :
        LET n == Len(report.runs)
            last == report.runs[n]
            before == [i \in 1..(n - 1) |-> summaryOf(report.runs[i])]
        IN  (n > 1 /\ ~Has(last, "error") /\ ~Retryable(last)) =>
                /\ Has(report, "warnMessage")
                /\ Len(SelectSeq(report.runs, failed)) = n - 1
                /\ report.warnMessage =
                       "Required " \o ToString(n) \o " attempts ("
                       \o (IF n = 2 THEN before[1]
                           ELSE IF n = 3 THEN before[1] \o ", " \o before[2]
                           ELSE join(before, ", "))
                       \o ")"

C13_Witness ==
    /\ pc = "resolved"
    /\ Len(runs) = 3
    /\ Has(result.value.extension.stats, "warnMessage")
    /\ result.value.extension.stats.warnMessage
           = "Required 3 attempts (500, FetchError (ENOTFOUND))"

\* C14: no report has an empty log, and a call whose last attempt obtained a
\* response that is not retryable has a report whose lastRun is not failed.
C14_SuccessIsNotFailed ==
    /\ \A report \in Reports : Len(report.runs) >= 1
    /\ (Done /\ outcomes[Len(outcomes)] = "response" /\ ~Retryable(LastRun)) =>
           /\ pc = "resolved"
           /\ Reports # {}
           /\ \A report \in Reports :
                  /\ report.lastRun = LastRun
                  /\ ~failed(report.lastRun)
                  /\ ~Has(report, "failMessage")

C14_Witness ==
    /\ pc = "resolved"
    /\ Len(runs) = 1
    /\ RunStatus(LastRun) = 404
    /\ Len(delivered) = 1
    /\ ~Has(delivered[1], "failMessage")

\* C17: a call that resolves returns the response of its last attempt, never
\* that of an earlier one, with its own fields (status, url, body) as the
\* transport gave them; the only property added is extension, holding the
\* body helper and the report.
C17_ResponseReturnedAsReceived ==
    pc = "resolved" =>
        LET value == result.value
        IN  /\ DOMAIN value = {"id", "status", "url", "body", "extension"}
            /\ value.id = Len(runs)
            /\ outcomes[Len(runs)] = "response"
            /\ value.status \in Statuses
            /\ value.url = Url
            /\ value.body = "Text"
            /\ DOMAIN value.extension = {"body", "stats"}

\* C18: on every attempt the transport is handed the caller's target and the
\* caller's options without the extension block, every other option as the
\* caller wrote it, and the same options on every attempt.
C18_TransportGetsCallerOptions ==
    \A i \in DOMAIN exchanges :
        LET target == exchanges[i]["0"]
            handed == exchanges[i]["1"]
        IN  /\ target = Url
            /\ ~Has(handed, "extension")
            /\ \A prop \in DOMAIN input \ {"extension"} :
                   Has(handed, prop) /\ handed[prop] = input[prop]
            /\ exchanges[i] = exchanges[1]

DefaultMethods == {"DELETE", "GET", "HEAD", "PATCH", "PUT"}

\* C19: without an extension block the policy is limit 1, delay 100 ms and
\* the methods DELETE, GET, HEAD, PATCH, PUT; a retry block that sets some of
\* the three keeps the defaults of the others; a GET answered 500 every time
\* without an extension block is attempted exactly twice.
C19_DefaultPolicy ==
    /\ (Started /\ ~Has(input, "extension")) =>
           extension.retry = Obj([limit |-> 1, delay |-> "100 ms",
                                  methods |-> DefaultMethods])
    /\ (Started /\ CallerRetry.tag = "object") =>
           /\ extension.retry.limit = IF Has(CallerRetry, "limit")
                                      THEN CallerRetry.limit ELSE 1
           /\ extension.retry.delay = IF Has(CallerRetry, "delay")
                                      THEN CallerRetry.delay ELSE "100 ms"
           /\ extension.retry.methods = IF Has(CallerRetry, "methods")
                                        THEN CallerRetry.methods
                                        ELSE DefaultMethods
    /\ (Done /\ ~Has(input, "extension") /\ ~Has(input, "method")
            /\ \A i \in DOMAIN runs : RunStatus(runs[i]) = 500) =>
           Len(runs) = 2 /\ Len(exchanges) = 2

C19_Witness ==
    /\ pc = "resolved"
    /\ ~Has(input, "extension")
    /\ request.method = GET
    /\ Len(runs) = 2
    /\ RunStatus(runs[1]) = 500
    /\ RunStatus(runs[2]) = 500
    /\ Limit = 1

\* C20: one exchange in flight at most: an exchange is outstanding exactly
\* while the call awaits it, and every attempt after the first starts only
\* after the run of the attempt before it has been classified and pushed.
C20_AttemptsSequential ==
    /\ Len(exchanges) <= Len(outcomes) + 1
    /\ pc = "fetching" <=> Len(exchanges) = Len(outcomes) + 1
    /\ Len(exchanges) <= Len(runs) + 1
    /\ pc \in {"fetching", "caught", "evaluated"} =>
           Len(exchanges) = Len(runs) + 1
    /\ pc \in {"sleeping", "resolved", "rejected"} =>
           Len(exchanges) = Len(runs)
    /\ \A i \in DOMAIN events :
           (events[i] = "fetch" /\ i > 1) =>
               /\ i > 2
               /\ events[i - 1] = "sleep"
               /\ events[i - 2] = "push"
               /\ Cardinality({j \in 1..(i - 1) : events[j] = "push"})
                      = Cardinality({j \in 1..(i - 1) : events[j] = "fetch"})

C20_Witness ==
    /\ pc = "fetching"
    /\ Len(runs) = 2
    /\ Len(exchanges) = 3
    /\ events = <<"fetch", "push", "sleep", "fetch", "push", "sleep", "fetch">>

\* the extension block as the caller wrote it in the options object
CallerExtension == IF Has(input, "extension") THEN input.extension ELSE Empty

\* C16: calls share no mutable state: every call, also one handed an options
\* object that an earlier call was handed, runs under the policy the caller
\* wrote in its options and fills a log of its own within that policy.
C16_EachCallUnderItsOwnPolicy ==
    Started =>
        /\ extension = mergeDefaults(CallerExtension)
        /\ Len(runs) <= runLimit(mergeDefaults(CallerExtension))
        /\ Len(exchanges) <= runLimit(mergeDefaults(CallerExtension))

\* the delays the call has begun so far
Sleeps == Count(events, "sleep")

\* C21: the delay is taken once before every attempt but the first and only
\* after a retryable run: N attempts have N - 1 delays, none before the first
\* attempt and none after the last, and limit 0 means one attempt, no delay.
C21_DelaysBetweenAttempts ==
    /\ Started => events[1] # "sleep"
    /\ pc \in {"fetching", "caught", "evaluated"} =>
           Sleeps = Len(exchanges) - 1
    /\ pc = "sleeping" => Sleeps = Len(runs) /\ Retryable(LastRun)
    /\ Done => Sleeps = Len(runs) - 1 /\ Len(exchanges) = Len(runs)
    /\ \A i \in DOMAIN events :
           events[i] = "sleep" =>
               /\ i > 1
               /\ events[i - 1] = "push"
               /\ Retryable(runs[Count(SubSeq(events, 1, i), "push")])
               /\ i < Len(events) => events[i + 1] = "fetch"
    /\ (Started /\ Limit = 0) =>
           /\ Sleeps = 0
           /\ Len(exchanges) = 1
           /\ Len(runs) = 1 => Done

C21_Witness ==
    /\ pc = "rejected"
    /\ Len(runs) = 3
    /\ Sleeps = 2
    /\ events = <<"fetch", "push", "sleep", "fetch", "push", "sleep",
                  "fetch", "push", "onComplete", "reject">>

\* the codes for which a thrown error is retried
KnownTransient ==
    {"ECONNRESET", "EADDRINUSE", "ECONNREFUSED", "EPIPE",
     "ENOTFOUND", "ENETUNREACH", "EAI_AGAIN"}

\* an attempt that ended in a success, or in a thrown value that is neither
\* a cancellation by the deadline nor has a known transient code
Terminal(i) ==
    IF outcomes[i] = "response"
    THEN ~(RunStatus(runs[i]) >= 500
           /\ RetryEnabled
           /\ request.method \in extension.retry.methods)
    ELSE /\ outcomes[i] # "deadline"
         /\ RunCode(runs[i]) \notin KnownTransient

\* C22: the loop stops at the first run that is not retryable, wherever it
\* occurs: after a success or an unclassified error no delay is taken and no
\* further attempt is started, even below limit + 1 attempts.
C22_StopsAtFirstTerminalRun ==
    \A i \in DOMAIN runs :
        Terminal(i) =>
            /\ i = Len(runs)
            /\ Done
            /\ Len(exchanges) = i
            /\ Sleeps = i - 1
            /\ events[Len(events)] \in {"resolve", "reject"}

\* the elapsed times of the first n runs of a log, added up
RECURSIVE Elapsed(_, _)
Elapsed(log, n) == IF n = 0 THEN 0 ELSE Elapsed(log, n - 1) + log[n].time

\* the time the delays after the runs of the log have taken
Slept == IF runs = <<>> THEN 0 ELSE Len(runs) * ms(extension.retry.delay)

\* C23: with a timeout every attempt has a deadline of its own, created when
\* the attempt starts, after all the time that the earlier attempts and the
\* delays have taken: an attempt that its deadline cancels has had the whole
\* timeout to itself, whatever time went before it, and a deadline only ever
\* cancels its own attempt.
C23_DeadlinePerAttempt ==
    Has(extension, "timeout") =>
        /\ pc = "fetching" =>
               /\ request.signal = "deadline"
               /\ deadline.attempt = Len(exchanges)
               /\ deadline.delay = extension.timeout
               /\ deadline.created = now
               /\ now = Elapsed(runs, Len(runs)) + Slept
        /\ \A i \in DOMAIN runs :
               /\ outcomes[i] = "deadline" =>
                      /\ Has(runs[i], "error")
                      /\ runs[i].error.id = i
                      /\ runs[i].error \in DeadlineErrors(i)
                             \cup {Assign(e, "reason", "Timeout") :
                                       e \in DeadlineErrors(i)}
                      /\ runs[i].time >= extension.timeout

C23_Witness ==
    /\ pc = "fetching"
    /\ Has(extension, "timeout")
    /\ Len(runs) = 2
    /\ outcomes = <<"deadline", "deadline">>
    /\ runs[1].time = 100
    /\ runs[2].time = 100
    /\ ms(extension.retry.delay) = 1
    /\ now = 202
    /\ deadline.attempt = 3
    /\ deadline.created = 202

\* C24: every run has exactly one of status and error, for every policy:
\* status alone when the exchange gave a response, error alone when it threw
\* or was cancelled.
C24_StatusOrError ==
    \A i \in DOMAIN runs :
        /\ outcomes[i] = "response" =>
               Has(runs[i], "status") /\ ~Has(runs[i], "error")
        /\ outcomes[i] # "response" =>
               Has(runs[i], "error") /\ ~Has(runs[i], "status")

\* C25: in every report totalFetchTime is the sum of the elapsed times of its
\* runs, maxFetchTime the largest of them and lastRun the last run; so the
\* maximum is at most the total and no run took longer than the maximum.
C25_TotalsOfTheLog ==
    \A report \in Reports :
        LET n == Len(report.runs)
            times == {report.runs[i].time : i \in 1..n}
        IN  /\ report.totalFetchTime = Elapsed(report.runs, n)
            /\ report.maxFetchTime \in times
            /\ \A t \in times : t <= report.maxFetchTime
            /\ report.maxFetchTime <= report.totalFetchTime
            /\ report.lastRun = report.runs[n]
            /\ report.runs = runs

C25_Witness ==
    /\ pc = "resolved"
    /\ Len(runs) = 3
    /\ runs[1].time = MaxTicks
    /\ runs[2].time = 0
    /\ runs[3].time = MaxTicks
    /\ result.value.extension.stats.maxFetchTime = MaxTicks
    /\ result.value.extension.stats.totalFetchTime = 2 * MaxTicks
    /\ result.value.extension.stats.maxFetchTime
           < result.value.extension.stats.totalFetchTime
    /\ result.value.extension.stats.lastRun = runs[3]

\* C26: at every point of the call every run but the last of the log is
\* retryable, hence failed: a run that is not retryable is the last one.
C26_OnlyLastRunNotRetryable ==
    \A i \in DOMAIN runs :
        i < Len(runs) =>
            /\ Has(runs[i], "retryable")
            /\ runs[i].retryable
            /\ failed(runs[i])
            /\ outcomes[i] = "response" => RunStatus(runs[i]) >= 500

C26_Witness ==
    /\ pc = "sleeping"
    /\ Len(runs) = 2
    /\ RunStatus(runs[1]) = 500
    /\ RunCode(runs[2]) = "ENOTFOUND"
    /\ Retryable(runs[2])

\* C27: every call terminates: if each exchange eventually ends and each
\* delay eventually elapses, a call that has started eventually resolves or
\* rejects, within limit + 1 attempts, whatever the outcomes of its attempts.
C27_CallTerminates == Started ~> (Done /\ Len(runs) <= runLimit(extension))

C27_Witness ==
    /\ pc = "rejected"
    /\ Limit = MaxLimit
    /\ Len(runs) = MaxLimit + 1
    /\ \A i \in DOMAIN runs : Retryable(runs[i])
    /\ outcomes[1] = "deadline"
    /\ outcomes[Len(runs)] = "network"

\* C28: without a timeout, once the token is triggered the call returns no
\* response of an attempt started later; triggered during the delay, the
\* sleep runs to its end, one further attempt at most is started, its run is
\* a cancellation that is not retryable, and the call rejects with what the
\* cancelled exchange threw.
C28_TriggerDuringDelay ==
    (triggered # Empty /\ ~Has(extension, "timeout")) =>
        /\ pc = "resolved" => result.value.id <= triggered.attempt
        /\ triggered.pc = "sleeping" =>
               /\ pc # "resolved"
               /\ Len(exchanges) <= triggered.attempt + 1
               /\ pc = "sleeping" => Len(exchanges) = triggered.attempt
               /\ Len(exchanges) = triggered.attempt + 1 =>
                      /\ events[Len(exchanges) * 3 - 3] = "sleep"
                      /\ events[Len(exchanges) * 3 - 2] = "fetch"
                      /\ startTime
                             = triggered.now + ms(extension.retry.delay)
               /\ Len(runs) = triggered.attempt + 1 =>
                      /\ pc = "rejected"
                      /\ outcomes[Len(runs)] = "token"
                      /\ Has(LastRun, "error")
                      /\ ~Has(LastRun, "status")
                      /\ ~Retryable(LastRun)
                      /\ result.value = LastRun.error

====
